---- MODULE Spec2Model ----
(***************************************************************************)
(* Scatter / gather subsystem of the numpy backend                         *)
(* (src/ivy/functional/backends/numpy/general.py).                         *)
(*                                                                         *)
(* A buffer (np.ndarray) is a record [shape, data]: shape is the tuple of  *)
(* extents and data maps every 0-based coordinate tuple of that shape to   *)
(* the element stored there.  Elements are integers; the dtype conversions *)
(* of the code are value preserving on them.  An optional argument (None   *)
(* or a value) is the empty set or a singleton.  An index array of shape   *)
(* (N, k) is the sequence of its N rows; the 1-D index array of            *)
(* scatter_flat and gather is the sequence of its entries.  Buffers are    *)
(* C-contiguous, index values are non-negative (an index past the end of   *)
(* its axis is numpy's IndexError, raised before any element is written),  *)
(* and updates has exactly the shape of the addressed elements, (N,) plus  *)
(* the unaddressed trailing extents of the target.                         *)
(*                                                                         *)
(* A call is one behaviour: Init draws the function and its arguments, the *)
(* action of that function runs its body and records the returned buffer,  *)
(* the raised error, and the caller's out buffer as the call leaves it.    *)
(***************************************************************************)
EXTENDS Integers, Sequences, FiniteSets, TLC

VARIABLES pc, fn, indices, updates, size, shape, reduction, params, out, ret, err

vars == <<pc, fn, indices, updates, size, shape, reduction, params, out, ret, err>>

\* ---------------------------------------------------------------- bounds
\* Largest number of entries of the 1-D index array of scatter_flat / gather.
MaxLen == 3
\* Largest number of rows of the index array of scatter_nd / gather_nd.
MaxRows == 2
\* Largest length of a 1-D buffer handed to scatter_flat and gather.
MaxSize == 2

\* Extents of an axis and ranks of the N-dimensional buffers.
Extents == 1..2
Ranks == 1..2
\* Update values (all of magnitude far below the sentinel).
Vals == {-1, 2}
\* The reduction strings a caller passes; "avg" is not one the code knows.
ReductionArgs == {"sum", "replace", "min", "max", "avg"}

\* The fill value 1e12 of the min / max target.  Element values are counted
\* in thousands throughout (an update 2 stands for 2000.0), which keeps 1e12
\* inside TLC's 32-bit integers; sum, min, max and equality do not depend on
\* the unit.
Sentinel == 1000000000

\* ---------------------------------------------------------------- helpers
None == {}

Some(x) == {x}

Get(o) == CHOOSE x \in o : TRUE

Min2(a, b) == IF a <= b THEN a ELSE b

Max2(a, b) == IF a >= b THEN a ELSE b

RECURSIVE Prod(_)
Prod(s) == IF s = <<>> THEN 1 ELSE Head(s) * Prod(Tail(s))

Drop(s, k) == SubSeq(s, k + 1, Len(s))

Take(s, k) == SubSeq(s, 1, k)

\* All coordinate tuples of a buffer of the given shape.
RECURSIVE Coords(_)
Coords(s) ==
  IF s = <<>> THEN {<<>>}
  ELSE {<<i>> \o c : i \in 0..(Head(s) - 1), c \in Coords(Tail(s))}

\* The coordinate tuples in C (row-major) order: last axis fastest.
RECURSIVE CoordSeq(_)
RECURSIVE CoordSeqFrom(_, _, _)
CoordSeqFrom(i, n, rest) ==
  IF i >= n THEN <<>>
  ELSE [j \in 1..Len(rest) |-> <<i>> \o rest[j]] \o CoordSeqFrom(i + 1, n, rest)

CoordSeq(s) ==
  IF s = <<>> THEN << <<>> >>
  ELSE CoordSeqFrom(0, Head(s), CoordSeq(Tail(s)))

\* np.zeros(shape) / np.ones(shape) * c
Full(s, c) == [shape |-> s, data |-> [x \in Coords(s) |-> c]]

\* np.reshape(x, (-1,)): the elements in C order, as a 0-based flat array
\* held in a 1-based sequence.
Ravel(b) ==
  LET cs == CoordSeq(b.shape) IN [n \in 1..Len(cs) |-> b.data[cs[n]]]

\* np.reshape(flat, s) of a flat array with Prod(s) elements.
Reshape(flat, s) ==
  LET cs == CoordSeq(s)
  IN [shape |-> s,
      data |-> [x \in Coords(s) |-> flat[CHOOSE n \in 1..Len(cs) : cs[n] = x]]]

\* .astype(np.int32) of an offset.  Every integer TLC represents is a 32-bit
\* integer already, on which the cast changes nothing; offsets that wrap
\* (2^31 and beyond) lie outside the model.
astype_int32(x) == x

\* _to_device(x): stamps the device, leaves the contents alone.
to_device(x) == x

\* ivy.exists(x): x is not None
exists(x) == x # None

\* ---------------------------------------------------------------- numpy
\* The index tuple (rows[.][1], ..., rows[.][k], Ellipsis) addresses target
\* of shape s without an IndexError: no more index arrays than axes and
\* every coordinate inside its axis.
IndicesValid(s, rows) ==
  \A j \in DOMAIN rows :
    /\ Len(rows[j]) <= Len(s)
    /\ \A i \in DOMAIN rows[j] : rows[j][i] >= 0 /\ rows[j][i] < s[i]

Combine(f, old, new) ==
  CASE f = "add" -> old + new
    [] f = "minimum" -> Min2(old, new)
    [] f = "maximum" -> Max2(old, new)
    [] f = "set" -> new

\* ufunc.at(target, index_tuple, upd) and target[index_tuple] = upd: the
\* rows are applied one after the other, row j combining upd[j, ...] into
\* the slice target[rows[j], ...]; a repeated row is applied again.
RECURSIVE ApplyRows(_, _, _, _, _)
ApplyRows(f, data, rows, upd, j) ==
  IF j > Len(rows) THEN data
  ELSE LET k == Len(rows[j])
           step == [x \in DOMAIN data |->
                      IF Take(x, k) = rows[j]
                      THEN Combine(f, data[x], upd.data[<<j - 1>> \o Drop(x, k)])
                      ELSE data[x]]
       IN ApplyRows(f, step, rows, upd, j + 1)

\* Variant: target[index_tuple] += upd, the buffered add, which reads every
\* addressed element once and so counts only the last of colliding rows.
np_add_at_buffered(target, rows, upd) ==
  [target EXCEPT !.data =
     [x \in DOMAIN target.data |->
        LET H == {j \in DOMAIN rows : Take(x, Len(rows[j])) = rows[j]}
        IN IF H = {} THEN target.data[x]
           ELSE LET last == CHOOSE m \in H : \A h \in H : h <= m
                IN target.data[x]
                   + upd.data[<<last - 1>> \o Drop(x, Len(rows[last]))]]]

np_add_at(target, rows, upd) ==
  [target EXCEPT !.data = ApplyRows("add", target.data, rows, upd, 1)]

np_minimum_at(target, rows, upd) ==
  [target EXCEPT !.data = ApplyRows("minimum", target.data, rows, upd, 1)]

np_maximum_at(target, rows, upd) ==
  [target EXCEPT !.data = ApplyRows("maximum", target.data, rows, upd, 1)]

\* Variant: an assignment in which the first of colliding rows wins.
setitem_first_wins(target, rows, upd) ==
  [target EXCEPT !.data =
     [x \in DOMAIN target.data |->
        LET H == {j \in DOMAIN rows : Take(x, Len(rows[j])) = rows[j]}
        IN IF H = {} THEN target.data[x]
           ELSE LET first == CHOOSE m \in H : \A h \in H : m <= h
                IN upd.data[<<first - 1>> \o Drop(x, Len(rows[first]))]]]

setitem(target, rows, upd) ==
  [target EXCEPT !.data = ApplyRows("set", target.data, rows, upd, 1)]

\* np.where(target == c, 0, target)
where_eq(target, c) ==
  [target EXCEPT !.data = [x \in DOMAIN target.data |->
                              IF target.data[x] = c THEN 0 ELSE target.data[x]]]

\* ---------------------------------------------------------------- calls
\* What a call leaves behind: the returned buffer (None when it raised),
\* the caller's out buffer, and the error raised ("none" when it returned).
Returned(r, o) == [ret |-> Some(r), out |-> o, err |-> "none"]

Raised(e, o) == [ret |-> None, out |-> o, err |-> e]

\* inplace_update(x, val) on two arrays: val is copied into x when the
\* shapes agree; otherwise a native x is left alone and val is returned.
inplace_update(x, val) ==
  IF val.shape = x.shape
  THEN Returned(val, Some(val))
  ELSE Returned(val, Some(x))

\* The 1-D index array as an index tuple of one array.
FlatRows(ind) == [j \in DOMAIN ind |-> <<ind[j]>>]

\* np.zeros([size]) / np.ones([size]) * c; a size of None is a TypeError.
FreshFlat(sz, c) == Full(<<Get(sz)>>, c)

\* reduction == "sum"
scatter_flat_sum(ind, upd, sz, o) ==
  LET target_given == exists(o) IN
  IF ~target_given /\ ~exists(sz) THEN Raised("TypeError", o)
  ELSE LET target == IF target_given THEN Get(o) ELSE FreshFlat(sz, 0)
       IN IF ~IndicesValid(target.shape, FlatRows(ind))
          THEN Raised("IndexError", o)
          ELSE LET res == np_add_at(target, FlatRows(ind), upd)
               \* np.add.at works on out itself when out was given
               IN Returned(to_device(res), IF target_given THEN Some(res) ELSE o)

\* reduction == "replace"
scatter_flat_replace(ind, upd, sz, o) ==
  LET target_given == exists(o) IN
  IF ~target_given /\ ~exists(sz) THEN Raised("TypeError", o)
  ELSE LET target == IF target_given THEN Get(o) ELSE FreshFlat(sz, 0)
       IN IF ~IndicesValid(target.shape, FlatRows(ind))
          THEN Raised("IndexError", o)
          \* target = np.asarray(target).copy(): the write goes to the copy
          ELSE Returned(to_device(setitem(target, FlatRows(ind), upd)), o)

\* Variant: the sentinel is normalized to zero also when out was given.
scatter_flat_min_normalizing(ind, upd, sz, o) ==
  LET target_given == exists(o) IN
  IF ~target_given /\ ~exists(sz) THEN Raised("TypeError", o)
  ELSE LET target == IF target_given THEN Get(o) ELSE FreshFlat(sz, Sentinel)
       IN IF ~IndicesValid(target.shape, FlatRows(ind))
          THEN Raised("IndexError", o)
          ELSE LET res == where_eq(np_minimum_at(target, FlatRows(ind), upd),
                                   Sentinel)
               IN Returned(to_device(res), IF target_given THEN Some(res) ELSE o)

\* reduction == "min"
scatter_flat_min(ind, upd, sz, o) ==
  LET target_given == exists(o) IN
  IF ~target_given /\ ~exists(sz) THEN Raised("TypeError", o)
  ELSE LET target == IF target_given THEN Get(o) ELSE FreshFlat(sz, Sentinel)
       IN IF ~IndicesValid(target.shape, FlatRows(ind))
          THEN Raised("IndexError", o)
          ELSE LET res == np_minimum_at(target, FlatRows(ind), upd)
               IN IF target_given
                  THEN Returned(to_device(res), Some(res))
                  ELSE Returned(to_device(where_eq(res, Sentinel)), o)

\* reduction == "max"
scatter_flat_max(ind, upd, sz, o) ==
  LET target_given == exists(o) IN
  IF ~target_given /\ ~exists(sz) THEN Raised("TypeError", o)
  ELSE LET target == IF target_given THEN Get(o) ELSE FreshFlat(sz, -Sentinel)
       IN IF ~IndicesValid(target.shape, FlatRows(ind))
          THEN Raised("IndexError", o)
          ELSE LET res == np_maximum_at(target, FlatRows(ind), upd)
               IN IF target_given
                  THEN Returned(to_device(res), Some(res))
                  ELSE Returned(to_device(where_eq(res, -Sentinel)), o)

\* Variant: an unknown reduction falls back to the default, "sum".
scatter_flat_fallback(ind, upd, sz, red, o) ==
  IF exists(sz) /\ exists(o)
     /\ ~(Len(Get(o).shape) = 1 /\ Get(o).shape[1] = Get(sz))
  THEN Raised("AssertionError", o)
  ELSE CASE red = "replace" -> scatter_flat_replace(ind, upd, sz, o)
         [] red = "min" -> scatter_flat_min(ind, upd, sz, o)
         [] red = "max" -> scatter_flat_max(ind, upd, sz, o)
         [] OTHER -> scatter_flat_sum(ind, upd, sz, o)

scatter_flat(ind, upd, sz, red, o) ==
  IF exists(sz) /\ exists(o)
     /\ ~(Len(Get(o).shape) = 1 /\ Get(o).shape[1] = Get(sz))
  THEN Raised("AssertionError", o)
  ELSE CASE red = "sum" -> scatter_flat_sum(ind, upd, sz, o)
         [] red = "replace" -> scatter_flat_replace(ind, upd, sz, o)
         [] red = "min" -> scatter_flat_min(ind, upd, sz, o)
         [] red = "max" -> scatter_flat_max(ind, upd, sz, o)
         [] OTHER -> Raised("Exception", o)

\* The tail of scatter_nd: the result is written back into out when out
\* was given, and is returned as it is otherwise.
scatter_nd_return(target, o) ==
  IF exists(o) THEN inplace_update(Get(o), to_device(target))
  ELSE Returned(to_device(target), o)

\* reduction == "sum"; shape_ is the resolved target shape
scatter_nd_sum(rows, upd, shape_, o) ==
  LET target_given == exists(o)
      target == IF target_given THEN Get(o) ELSE Full(shape_, 0)
  IN IF ~IndicesValid(target.shape, rows) THEN Raised("IndexError", o)
     ELSE scatter_nd_return(np_add_at(target, rows, upd), o)

\* reduction == "replace"
scatter_nd_replace(rows, upd, shape_, o) ==
  LET target_given == exists(o)
      target == IF target_given THEN Get(o) ELSE Full(shape_, 0)
  IN IF ~IndicesValid(target.shape, rows) THEN Raised("IndexError", o)
     ELSE scatter_nd_return(setitem(target, rows, upd), o)

\* reduction == "min"
scatter_nd_min(rows, upd, shape_, o) ==
  LET target_given == exists(o)
      target == IF target_given THEN Get(o) ELSE Full(shape_, Sentinel)
  IN IF ~IndicesValid(target.shape, rows) THEN Raised("IndexError", o)
     ELSE LET res == np_minimum_at(target, rows, upd)
          IN scatter_nd_return(
               IF target_given THEN res ELSE where_eq(res, Sentinel), o)

\* Variant: the max branch normalizes the sentinel of the min branch.
scatter_nd_max_min_sentinel(rows, upd, shape_, o) ==
  LET target_given == exists(o)
      target == IF target_given THEN Get(o) ELSE Full(shape_, -Sentinel)
  IN IF ~IndicesValid(target.shape, rows) THEN Raised("IndexError", o)
     ELSE LET res == np_maximum_at(target, rows, upd)
          IN scatter_nd_return(
               IF target_given THEN res ELSE where_eq(res, Sentinel), o)

\* reduction == "max"
scatter_nd_max(rows, upd, shape_, o) ==
  LET target_given == exists(o)
      target == IF target_given THEN Get(o) ELSE Full(shape_, -Sentinel)
  IN IF ~IndicesValid(target.shape, rows) THEN Raised("IndexError", o)
     ELSE LET res == np_maximum_at(target, rows, upd)
          IN scatter_nd_return(
               IF target_given THEN res ELSE where_eq(res, -Sentinel), o)

\* Variant: shape and out are not compared; shape wins.
scatter_nd_unasserted(rows, upd, shp, red, o) ==
  IF ~exists(shp) /\ ~exists(o) THEN Raised("AttributeError", o)
  ELSE LET shape_ == IF exists(shp) THEN Get(shp) ELSE Get(o).shape
       IN CASE red = "sum" -> scatter_nd_sum(rows, upd, shape_, o)
            [] red = "replace" -> scatter_nd_replace(rows, upd, shape_, o)
            [] red = "min" -> scatter_nd_min(rows, upd, shape_, o)
            [] red = "max" -> scatter_nd_max(rows, upd, shape_, o)
            [] OTHER -> Raised("Exception", o)

scatter_nd(rows, upd, shp, red, o) ==
  IF exists(shp) /\ exists(o) /\ Get(o).shape # Get(shp)
  THEN Raised("AssertionError", o)
  \* list(out.shape) with out None
  ELSE IF ~exists(shp) /\ ~exists(o) THEN Raised("AttributeError", o)
  ELSE LET shape_ == IF exists(shp) THEN Get(shp) ELSE Get(o).shape
       IN CASE red = "sum" -> scatter_nd_sum(rows, upd, shape_, o)
            [] red = "replace" -> scatter_nd_replace(rows, upd, shape_, o)
            [] red = "min" -> scatter_nd_min(rows, upd, shape_, o)
            [] red = "max" -> scatter_nd_max(rows, upd, shape_, o)
            [] OTHER -> Raised("Exception", o)

\* Variant: the indices are taken as 1-based (index 0 wraps to the end).
gather_one_based(prm, ind) ==
  IF \E j \in DOMAIN ind : ind[j] < 0 \/ ind[j] >= prm.shape[1]
  THEN Raised("IndexError", None)
  ELSE Returned(to_device([shape |-> <<Len(ind)>>,
                           data |-> [x \in Coords(<<Len(ind)>>) |->
                                       prm.data[<<(ind[x[1] + 1] - 1) % prm.shape[1]>>]]]),
                None)

\* gather(params, indices, axis=-1) on a 1-D params:
\* np.take_along_axis(params, indices, -1), entry j is params[indices[j]].
gather(prm, ind) ==
  IF \E j \in DOMAIN ind : ind[j] < 0 \/ ind[j] >= prm.shape[1]
  THEN Raised("IndexError", None)
  ELSE Returned(to_device([shape |-> <<Len(ind)>>,
                           data |-> [x \in Coords(<<Len(ind)>>) |->
                                       prm.data[<<ind[x[1] + 1]>>]]]),
                None)

\* Variant: the stride of axis i takes in the extent of axis i itself.
result_dim_sizes_own_axis(params_shape) ==
  [i \in 1..Len(params_shape) |->
     IF i < Len(params_shape) THEN Prod(Drop(params_shape, i - 1)) ELSE 1]

\* [reduce(mul, params_shape[i + 1:], 1) for i in range(len(params_shape) - 1)] + [1]
result_dim_sizes(params_shape) ==
  [i \in 1..Len(params_shape) |->
     IF i < Len(params_shape) THEN Prod(Drop(params_shape, i)) ELSE 1]

\* np.sum(indices * indices_scales, -1) of one index row
RECURSIVE SumScaled(_, _, _)
SumScaled(row, scales, i) ==
  IF i > Len(row) THEN 0
  ELSE row[i] * scales[i] + SumScaled(row, scales, i + 1)

\* Variant: the offsets inside the block are not added to the base offset.
flat_indices_base_only(rows, scales, factor) ==
  [n \in 1..(Len(rows) * factor) |->
     astype_int32(SumScaled(rows[((n - 1) \div factor) + 1], scales, 1))]

\* The flat read positions, row after row, each row's block in order:
\* np.reshape(indices_for_flat_tiled + implicit_indices, (-1,)).astype(np.int32)
flat_indices_for_flat(rows, scales, factor) ==
  [n \in 1..(Len(rows) * factor) |->
     astype_int32(SumScaled(rows[((n - 1) \div factor) + 1], scales, 1)
                  + ((n - 1) % factor))]

gather_nd(prm, rows) ==
  LET indices_shape == <<Len(rows), Len(rows[1])>>
      params_shape == prm.shape
      num_index_dims == indices_shape[2]
      rds == result_dim_sizes(params_shape)
  IN
  \* result_dim_sizes[num_index_dims - 1] past the end of the array
  IF num_index_dims > Len(rds) THEN Raised("IndexError", None)
  ELSE
  LET implicit_indices_factor == rds[num_index_dims]
      flat_params == Ravel(prm)
      indices_scales == Take(rds, num_index_dims)
      flat_idx == flat_indices_for_flat(rows, indices_scales,
                                        implicit_indices_factor)
      \* np.take(flat_params, i): a negative i counts from the end
      At(i) == IF i < 0 THEN i + Len(flat_params) ELSE i
  IN
  IF \E n \in DOMAIN flat_idx :
       flat_idx[n] >= Len(flat_params) \/ flat_idx[n] < -Len(flat_params)
  THEN Raised("IndexError", None)
  ELSE LET flat_gather == [n \in DOMAIN flat_idx |-> flat_params[At(flat_idx[n]) + 1]]
           new_shape == <<indices_shape[1]>> \o Drop(params_shape, num_index_dims)
       IN Returned(to_device(Reshape(flat_gather, new_shape)), None)

\* ---------------------------------------------------------------- inputs
\* A value that tells the coordinates apart: digit i of it is x[i].
RECURSIVE Code(_)
Code(x) == IF x = <<>> THEN 0 ELSE Head(x) + 10 * Code(Tail(x))

RECURSIVE SumSeq(_)
SumSeq(x) == IF x = <<>> THEN 0 ELSE Head(x) + SumSeq(Tail(x))

\* Contents of a caller's buffer: small distinct values, or the two
\* sentinel values alternating.
Patterns == {"code", "sentinel"}

PatternBuf(s, pat) ==
  [shape |-> s,
   data |-> [x \in Coords(s) |->
               IF pat = "code" THEN Code(x)
               ELSE IF SumSeq(x) % 2 = 0 THEN Sentinel ELSE -Sentinel]]

\* Shapes of the N-dimensional buffers.
NdShapes == UNION {[1..r -> Extents] : r \in Ranks}

MaxExtent == CHOOSE e \in Extents : \A d \in Extents : d <= e

\* Updates of shape (N,) + trailing: row j holds base[j] plus a value that
\* tells the positions of its slice apart.
UpdatesBuf(base, trailing) ==
  LET s == <<Len(base)>> \o trailing
  IN [shape |-> s,
      data |-> [x \in Coords(s) |-> base[x[1] + 1] + 10 * Code(Tail(x))]]

\* A shape that disagrees with s: in the extent of the first axis, or in rank.
Mismatches(s) ==
  {[s EXCEPT ![1] = (s[1] % MaxExtent) + 1],
   IF Len(s) > 1 THEN Tail(s) ELSE <<1>> \o s}

InitScatterFlat ==
  \E n \in 1..MaxLen :
  \E ind \in [1..n -> 0..(MaxSize - 1)], base \in [1..n -> Vals] :
  \E sz \in {None} \cup {Some(m) : m \in 1..MaxSize} :
  \E o \in {None} \cup {Some(PatternBuf(s, pat)) :
                          s \in {<<m>> : m \in 1..MaxSize} \cup NdShapes,
                          pat \in Patterns} :
    \* a target that is not 1-D is only handed over together with a size
    /\ exists(o) /\ Len(Get(o).shape) # 1 => exists(sz)
    /\ fn = "scatter_flat"
    /\ indices = ind
    /\ updates = UpdatesBuf(base, <<>>)
    /\ size = sz
    /\ shape = None
    /\ reduction \in ReductionArgs
    /\ params = None
    /\ out = o

InitScatterNd ==
  \E n \in 1..MaxRows, k \in Ranks :
  \E rows \in [1..n -> [1..k -> 0..(MaxExtent - 1)]], base \in [1..n -> Vals] :
  \E shp \in {None} \cup {Some(s) : s \in NdShapes} :
  \E o \in {None} \cup {Some(PatternBuf(s, pat)) : s \in NdShapes, pat \in Patterns} :
    LET tshape == IF exists(o) THEN Get(o).shape
                  ELSE IF exists(shp) THEN Get(shp) ELSE <<>>
        trailing == IF k <= Len(tshape) THEN Drop(tshape, k) ELSE <<>>
    IN
    /\ exists(o) /\ exists(shp) =>
         Get(shp) = Get(o).shape \/ Get(shp) \in Mismatches(Get(o).shape)
    /\ fn = "scatter_nd"
    /\ indices = rows
    /\ updates = UpdatesBuf(base, trailing)
    /\ size = None
    /\ shape = shp
    /\ reduction \in ReductionArgs
    /\ params = None
    /\ out = o

InitGather ==
  \E n \in 1..MaxLen, m \in 1..MaxSize :
  \E ind \in [1..n -> 0..(MaxSize - 1)], pat \in Patterns :
    /\ fn = "gather"
    /\ indices = ind
    /\ updates = None
    /\ size = None
    /\ shape = None
    /\ reduction = "none"
    /\ params = PatternBuf(<<m>>, pat)
    /\ out = None

InitGatherNd ==
  \E n \in 1..MaxRows, k \in Ranks :
  \E rows \in [1..n -> [1..k -> 0..MaxExtent]] :
  \E s \in NdShapes, pat \in Patterns :
    /\ fn = "gather_nd"
    /\ indices = rows
    /\ updates = None
    /\ size = None
    /\ shape = None
    /\ reduction = "none"
    /\ params = PatternBuf(s, pat)
    /\ out = None

Init ==
  /\ pc = "call"
  /\ ret = None
  /\ err = "none"
  /\ \/ InitScatterFlat
     \/ InitScatterNd
     \/ InitGather
     \/ InitGatherNd

\* ---------------------------------------------------------------- actions
Finish(r) ==
  /\ ret' = r.ret
  /\ out' = r.out
  /\ err' = r.err
  /\ pc' = "done"
  /\ UNCHANGED <<fn, indices, updates, size, shape, reduction, params>>

ScatterFlat ==
  /\ pc = "call"
  /\ fn = "scatter_flat"
  /\ Finish(scatter_flat(indices, updates, size, reduction, out))

ScatterNd ==
  /\ pc = "call"
  /\ fn = "scatter_nd"
  /\ Finish(scatter_nd(indices, updates, shape, reduction, out))

Gather ==
  /\ pc = "call"
  /\ fn = "gather"
  /\ Finish(gather(params, indices))

GatherNd ==
  /\ pc = "call"
  /\ fn = "gather_nd"
  /\ Finish(gather_nd(params, indices))

Next == ScatterFlat \/ ScatterNd \/ Gather \/ GatherNd

Spec == Init /\ [][Next]_vars

\* ---------------------------------------------------------------- claims
Done == pc = "done"

Calling == pc = "call"

IsScatter == fn \in {"scatter_flat", "scatter_nd"}

Reductions == {"sum", "replace", "min", "max"}

\* The index rows of the call, whichever of the two scatter functions it is.
CallRows == IF fn = "scatter_flat" THEN FlatRows(indices) ELSE indices

\* The rows of the index array that name position x of the target.
Hits(rows, x) == {j \in DOMAIN rows : Take(x, Len(rows[j])) = rows[j]}

\* The update that row j maps to position x.
UpdateAt(upd, rows, j, x) == upd.data[<<j - 1>> \o Drop(x, Len(rows[j]))]

MaxOf(S) == CHOOSE m \in S : \A x \in S : x <= m

MinOf(S) == CHOOSE m \in S : \A x \in S : m <= x

RECURSIVE SumOver(_, _, _, _)
SumOver(upd, rows, H, x) ==
  IF H = {} THEN 0
  ELSE LET j == CHOOSE h \in H : TRUE
       IN UpdateAt(upd, rows, j, x) + SumOver(upd, rows, H \ {j}, x)

\* size (scatter_flat) or shape (scatter_nd) disagrees with the out buffer.
Disagree ==
  /\ exists(out)
  /\ \/ /\ fn = "scatter_flat"
        /\ exists(size)
        /\ Get(out).shape # <<Get(size)>>
     \/ /\ fn = "scatter_nd"
        /\ exists(shape)
        /\ Get(out).shape # Get(shape)

\* C1: a scatter call with an out buffer and one of the four reductions that
\* returns leaves in out exactly the values of the buffer it returned.
C1_OutHoldsResult ==
  (Done /\ IsScatter /\ exists(out) /\ reduction \in Reductions /\ err = "none")
    => out = ret

\* C2: a scatter call with a reduction string outside the four known ones
\* raises, returns nothing and leaves the out buffer as it was.
C2_UnknownReductionFails ==
  [][(Calling /\ IsScatter /\ reduction \notin Reductions)
       => (err' # "none" /\ ret' = None /\ out' = out)]_vars

C2_Witness ==
  /\ Done /\ IsScatter /\ reduction = "avg" /\ err = "Exception"
  /\ exists(out) /\ Len(indices) >= 2

\* C3: when size or shape disagrees with the out buffer, the call raises the
\* assertion error and out is as it was, whatever the other arguments are.
C3_ShapeConflictFails ==
  [][(Calling /\ IsScatter /\ Disagree)
       => (err' = "AssertionError" /\ ret' = None /\ out' = out)]_vars

C3_Witness ==
  /\ Done /\ fn = "scatter_flat" /\ Disagree /\ err = "AssertionError"
  /\ Len(Get(out).shape) # 1 /\ reduction = "sum"

\* The call of the current state, made with other indices and updates.
CallWith(ind, upd) ==
  IF fn = "scatter_flat"
  THEN scatter_flat(ind, upd, size, reduction, out)
  ELSE scatter_nd(ind, upd, shape, reduction, out)

\* Entries j1 and j2 of the index array merged into entry j1, whose update
\* becomes the sum of the two updates.
MergedIndices(ind, j2) ==
  [j \in 1..(Len(ind) - 1) |-> IF j < j2 THEN ind[j] ELSE ind[j + 1]]

MergedUpdates(upd, j1, j2) ==
  LET s == [upd.shape EXCEPT ![1] = @ - 1]
  IN [shape |-> s,
      data |-> [x \in Coords(s) |->
                  LET src == IF x[1] < j2 - 1 THEN x[1] ELSE x[1] + 1
                  IN upd.data[<<src>> \o Tail(x)]
                     + (IF src = j1 - 1 THEN upd.data[<<j2 - 1>> \o Tail(x)] ELSE 0)]]

Perms(n) == {f \in [1..n -> 1..n] : \A i, j \in 1..n : i # j => f[i] # f[j]}

PermutedIndices(ind, f) == [j \in DOMAIN ind |-> ind[f[j]]]

PermutedUpdates(upd, f) ==
  [upd EXCEPT !.data = [x \in DOMAIN upd.data |->
                          upd.data[<<f[x[1] + 1] - 1>> \o Tail(x)]]]

\* C4: with reduction "sum", two updates at the same index give the buffer
\* that their sum at that index gives, and listing the (index, update)
\* pairs in another order gives the same buffer.
C4_SumAccumulates ==
  [][(Calling /\ IsScatter /\ reduction = "sum" /\ err' = "none")
       => /\ \A j1, j2 \in DOMAIN indices :
               (j1 < j2 /\ indices[j1] = indices[j2])
                 => CallWith(MergedIndices(indices, j2),
                             MergedUpdates(updates, j1, j2)).ret = ret'
          /\ \A f \in Perms(Len(indices)) :
               CallWith(PermutedIndices(indices, f),
                        PermutedUpdates(updates, f)).ret = ret']_vars

C4_Witness ==
  /\ Done /\ fn = "scatter_nd" /\ reduction = "sum" /\ err = "none"
  /\ Len(indices) = 2 /\ indices[1] = indices[2]
  /\ updates.data[<<0>> \o [i \in 1..(Len(updates.shape) - 1) |-> 0]] = 2

\* The target shape a call without out buffer declares.
DeclaredShape == IF fn = "scatter_flat" THEN <<Get(size)>> ELSE Get(shape)

\* C5: with reduction "replace" and no out buffer, the returned buffer has
\* the declared shape, holds at each position named by an index the update
\* of the last such index, and holds zero at every other position.
C5_ReplaceLastWins ==
  (Done /\ IsScatter /\ reduction = "replace" /\ out = None /\ err = "none")
    => LET r == Get(ret)
       IN /\ r.shape = DeclaredShape
          /\ \A x \in Coords(r.shape) :
               LET H == Hits(CallRows, x)
               IN r.data[x] = IF H = {} THEN 0
                              ELSE UpdateAt(updates, CallRows, MaxOf(H), x)

C5_Witness ==
  /\ Done /\ fn = "scatter_flat" /\ reduction = "replace" /\ out = None
  /\ err = "none" /\ Get(size) = 2
  /\ indices = <<0, 0>> /\ updates.data[<<0>>] # updates.data[<<1>>]

\* C6: with reduction "min" or "max", no out buffer and updates below the
\* sentinel in magnitude, each position named by an index holds the minimum
\* (maximum) of the updates mapped to it and every other position holds 0.
C6_MinMaxNoOut ==
  (/\ Done /\ IsScatter /\ reduction \in {"min", "max"} /\ out = None
   /\ err = "none"
   /\ \A x \in DOMAIN updates.data :
        updates.data[x] < Sentinel /\ updates.data[x] > -Sentinel)
    => LET r == Get(ret)
       IN /\ r.shape = DeclaredShape
          /\ \A x \in Coords(r.shape) :
               LET H == Hits(CallRows, x)
                   U == {UpdateAt(updates, CallRows, j, x) : j \in H}
               IN r.data[x] = IF H = {} THEN 0
                              ELSE IF reduction = "min" THEN MinOf(U)
                              ELSE MaxOf(U)

C6_Witness ==
  /\ Done /\ fn = "scatter_flat" /\ reduction = "max" /\ out = None
  /\ err = "none" /\ Get(size) = 2
  /\ indices = <<0, 0>> /\ updates.data[<<0>>] > updates.data[<<1>>]
  /\ Get(ret).data[<<1>>] = 0

\* C7: with an out buffer, the returned buffer has out's shape and holds at
\* each position the reduction of out's prior value there with the updates
\* mapped to it (sum: the prior value plus the updates; min / max: the
\* least / greatest of the prior value and the updates; replace: the last
\* update); a position no index names keeps its prior value, the sentinel
\* values included.
C7_AppliedOntoOut ==
  [][(Calling /\ IsScatter /\ exists(out) /\ reduction \in Reductions
      /\ err' = "none")
       => LET r == Get(ret')
              o == Get(out)
          IN /\ r.shape = o.shape
             /\ \A x \in Coords(o.shape) :
                  LET H == Hits(CallRows, x)
                      U == {UpdateAt(updates, CallRows, j, x) : j \in H}
                  IN r.data[x] =
                       CASE reduction = "sum" ->
                              o.data[x] + SumOver(updates, CallRows, H, x)
                         [] reduction = "min" -> MinOf(U \cup {o.data[x]})
                         [] reduction = "max" -> MaxOf(U \cup {o.data[x]})
                         [] reduction = "replace" ->
                              IF H = {} THEN o.data[x]
                              ELSE UpdateAt(updates, CallRows, MaxOf(H), x)]_vars

C7_Witness ==
  /\ Done /\ fn = "scatter_nd" /\ reduction = "min" /\ exists(out)
  /\ err = "none" /\ Get(out).shape = <<2, 2>> /\ indices = << <<0>> >>
  /\ Get(ret).data[<<1, 0>>] = -Sentinel
  /\ Get(ret).data[<<1, 1>>] = Sentinel

PairwiseDistinct(rows) ==
  \A i, j \in DOMAIN rows : i # j => rows[i] # rows[j]

\* C8: scatter_nd with "replace", no out buffer and pairwise distinct
\* in-range index rows, followed by gather_nd at the same indices, gives
\* back the updates, for full and for partial indexing.
C8_ScatterGatherRoundTrip ==
  (/\ Done /\ fn = "scatter_nd" /\ reduction = "replace" /\ out = None
   /\ err = "none" /\ PairwiseDistinct(indices))
    => LET g == gather_nd(Get(ret), indices)
       IN g.err = "none" /\ g.ret = Some(updates)

C8_Witness ==
  /\ Done /\ fn = "scatter_nd" /\ reduction = "replace" /\ out = None
  /\ err = "none" /\ PairwiseDistinct(indices)
  /\ Len(indices) = 2 /\ Len(indices[1]) = 1 /\ Get(shape) = <<2, 2>>

InRange(rows, s) ==
  \A j \in DOMAIN rows : \A i \in DOMAIN rows[j] :
    rows[j][i] >= 0 /\ rows[j][i] < s[i]

\* C9: gather_nd with k index components (1 <= k <= rank) and in-range
\* coordinates returns a buffer of shape indices.shape[:-1] + params.shape[k:]
\* whose entry for a row is the slice params[row]; the slice starts at flat
\* offset sum(row[i] * stride[i]) and has product(params.shape[k:]) elements,
\* one element when k is the rank.
C9_GatherNdSlices ==
  (/\ Done /\ fn = "gather_nd" /\ Len(indices[1]) <= Len(params.shape)
   /\ InRange(indices, params.shape))
    => LET k == Len(indices[1])
           rest == Drop(params.shape, k)
           rds == result_dim_sizes(params.shape)
           zeros == [i \in 1..Len(rest) |-> 0]
       IN /\ err = "none"
          /\ Get(ret).shape = <<Len(indices)>> \o rest
          /\ \A j \in DOMAIN indices : \A t \in Coords(rest) :
               Get(ret).data[<<j - 1>> \o t] = params.data[indices[j] \o t]
          /\ rds[k] = Prod(rest)
          /\ k = Len(params.shape) => rds[k] = 1
          /\ \A j \in DOMAIN indices :
               CoordSeq(params.shape)[SumScaled(indices[j], rds, 1) + 1]
                 = indices[j] \o zeros

C9_Witness ==
  /\ Done /\ fn = "gather_nd" /\ err = "none"
  /\ params.shape = <<2, 2>> /\ indices = << <<1>>, <<0>> >>
  /\ Get(ret).data[<<0, 1>>] = params.data[<<1, 1>>]

\* C10: on a 1-D params, gather at in-range indices followed by
\* scatter_flat with "replace" at the same indices and size len(params)
\* gives params at every position the indices name and zero elsewhere.
C10_GatherScatterReconstructs ==
  (Done /\ fn = "gather" /\ err = "none")
    => LET s == scatter_flat(indices, Get(ret), Some(params.shape[1]),
                             "replace", None)
       IN /\ s.err = "none"
          /\ Get(s.ret).shape = params.shape
          /\ \A x \in Coords(params.shape) :
               Get(s.ret).data[x] =
                 IF \E j \in DOMAIN indices : indices[j] = x[1]
                 THEN params.data[x] ELSE 0

C10_Witness ==
  /\ Done /\ fn = "gather" /\ err = "none"
  /\ params.shape = <<2>> /\ indices = <<1, 1>>
  /\ Get(ret).data[<<0>>] = params.data[<<1>>]

====
